---- MODULE Spec2Model ----
(***************************************************************************)
(* hattip: the HTTP/1.0 message parser of src/parser.hpp, driven by the    *)
(* round-trip test of src/test_parser.cpp.                                 *)
(*                                                                         *)
(* A std::string is a sequence of char values.  Plain char is signed (the  *)
(* x86-64 ABI the test is built for): the characters of the input are      *)
(* bytes 0..255, a char holds -128..127.  Every call of lexer::next, every *)
(* loop iteration and every statement of the operator>> overloads is one   *)
(* action; the chained "lex >> a >> b" expressions are kept as the list of *)
(* operations still to run (todo).                                         *)
(***************************************************************************)
EXTENDS Integers, Sequences, FiniteSets, TLC

VARIABLES
    input,           \* the bytes main() read from std::cin (test_parser.cpp:7-8)
    pos,             \* number of bytes already extracted from input_
    current_token_,  \* lexer::current_token_
    todo,            \* operations of the running operator>> chain, next first
    locals,          \* the objects the operator>> overloads are filling in
    msg,             \* main()'s hattip::message msg
    regenerated_input, \* main()'s regenerated_input.str()
    status,          \* where main() is: init, parsing, parsed, done, aborted, failed
    error            \* what() of the exception that ended the parse

vars == <<input, pos, current_token_, todo, locals, msg, regenerated_input, status, error>>

----------------------------------------------------------------------------
(* String literals of the source, as char sequences.                       *)

Lit_SP == <<32>>                  \* " "
Lit_CR == <<13>>                  \* "\r"
Lit_LF == <<10>>                  \* "\n"
Lit_QUOTE == <<34>>               \* "\""
Lit_SLASH == <<47>>               \* "/"
Lit_DOT == <<46>>                 \* "."
Lit_COLON == <<58>>               \* ":"
Lit_HTTP == <<72, 84, 84, 80>>    \* "HTTP"
Lit_GET == <<71, 69, 84>>         \* "GET"
Lit_QGET == <<34, 71, 69, 84, 34>> \* "\"GET\""

EOF == 0 - 1                      \* std::istream::traits_type::eof()

RECURSIVE Concat(_)
Concat(ss) == IF ss = <<>> THEN <<>> ELSE Head(ss) \o Concat(Tail(ss))

----------------------------------------------------------------------------
(* Character classes.                                                      *)

known_status_codes ==
    {100, 101, 200, 201, 203, 204, 205, 206, 300, 301, 302, 303, 304, 305,
     400, 401, 402, 403, 404, 405, 406, 407, 408, 409, 410, 411, 412,
     500, 501, 502, 503, 504}

is_known_status_code(c) == c \in known_status_codes

\* ( ) < > @ , ; : \ " / [ ] ? = { } SP HT
tspecials ==
    {40, 41, 60, 62, 64, 44, 59, 58, 92, 34, 47, 91, 93, 63, 61, 123, 125, 32, 9}

is_tspecial_char(ch) == ch \in tspecials

is_tspecial(s) == Len(s) = 1 /\ is_tspecial_char(s[1])

is_ctl_char(ch) == (0 <= ch /\ ch <= 31) \/ ch = 127

is_ctl(s) == Len(s) = 1 /\ is_ctl_char(s[1])

\* std::isdigit / std::isalpha in the "C" locale; EOF is in neither class
isdigit(ch) == ch \in 48..57

isalpha(ch) == ch \in (65..90) \cup (97..122)

\* std::isspace, as std::stoi (strtol) uses it to skip leading white space
isspace(ch) == ch \in (9..13) \cup {32}

is_number(s) == s # <<>> /\ \A i \in DOMAIN s : isdigit(s[i])

----------------------------------------------------------------------------
(* The byte stream and lexer::next.                                        *)

\* the conversion of "char ch = input_.peek()": int_type to (signed) char
ToChar(i) == IF i >= 128 THEN i - 256 ELSE i

\* std::istream::peek at stream position p: the next byte, or eof()
StreamPeek(inp, p) == IF p < Len(inp) THEN inp[p + 1] ELSE EOF

\* the characters main() compares against: input.str()
InputStr(inp) == [i \in DOMAIN inp |-> ToChar(inp[i])]

\* a loop that takes one character and stops
RunEnd_one(inp, p, digit) == p + 1

\* the while loops of lexer::next: first position at or after p whose
\* character is not in the class (digit = TRUE: isdigit, else isalpha)
RECURSIVE RunEnd(_, _, _)
RunEnd(inp, p, digit) ==
    LET ch == ToChar(StreamPeek(inp, p))
    IN  IF (IF digit THEN isdigit(ch) ELSE isalpha(ch))
        THEN RunEnd(inp, p + 1, digit)
        ELSE p

\* the characters of inp at stream positions p .. q-1
Chars(inp, p, q) == [i \in 1..(q - p) |-> ToChar(inp[p + i])]

\* lexer::next: the new current_token_ and the new stream position
next(inp, p) ==
    LET ch == ToChar(StreamPeek(inp, p))
    IN  IF ch = EOF
        THEN [tok |-> <<>>, pos |-> p]
        ELSE IF ch = 32 \/ ch = 13 \/ ch = 10
        THEN [tok |-> <<ch>>, pos |-> p + 1]
        ELSE IF is_tspecial_char(ch)
        THEN [tok |-> <<ch>>, pos |-> p + 1]
        ELSE IF isdigit(ch)
        THEN [tok |-> Chars(inp, p, RunEnd(inp, p, TRUE)), pos |-> RunEnd(inp, p, TRUE)]
        ELSE IF isalpha(ch)
        THEN [tok |-> Chars(inp, p, RunEnd(inp, p, FALSE)), pos |-> RunEnd(inp, p, FALSE)]
        ELSE [tok |-> <<ch>>, pos |-> p + 1]

----------------------------------------------------------------------------
(* Integers in and out of text.                                            *)

INT_MAX == 2147483647

\* index of the first character of s at or after i that is not white space
RECURSIVE SkipSpace(_, _)
SkipSpace(s, i) ==
    IF i <= Len(s) /\ isspace(s[i]) THEN SkipSpace(s, i + 1) ELSE i

\* value of the digit run of s starting at i with acc accumulated so far;
\* -1 once the value no longer fits an int
RECURSIVE DigitsValue(_, _, _)
DigitsValue(s, i, acc) ==
    IF i > Len(s) \/ ~isdigit(s[i])
    THEN acc
    ELSE IF acc > (INT_MAX - (s[i] - 48)) \div 10
    THEN 0 - 1
    ELSE DigitsValue(s, i + 1, acc * 10 + (s[i] - 48))

\* std::stoi(s): optional white space, optional sign, decimal digits; what
\* follows the digits is ignored.  No digit: std::invalid_argument; a value
\* that does not fit an int: std::out_of_range.
stoi(s) ==
    LET i == SkipSpace(s, 1)
        neg == i <= Len(s) /\ s[i] = 45
        j == IF i <= Len(s) /\ s[i] \in {43, 45} THEN i + 1 ELSE i
        v == DigitsValue(s, j, 0)
    IN  IF j > Len(s) \/ ~isdigit(s[j])
        THEN [ok |-> FALSE, val |-> 0, what |-> "stoi: invalid_argument"]
        ELSE IF v < 0
        THEN [ok |-> FALSE, val |-> 0, what |-> "stoi: out_of_range"]
        ELSE [ok |-> TRUE, val |-> IF neg THEN 0 - v ELSE v, what |-> ""]

\* std::ostream << int
RECURSIVE IntToStr(_)
IntToStr(n) ==
    IF n < 0 THEN <<45>> \o IntToStr(0 - n)
    ELSE IF n < 10 THEN <<48 + n>>
    ELSE IntToStr(n \div 10) \o <<48 + (n % 10)>>

----------------------------------------------------------------------------
(* qdtext.                                                                 *)

\* is_lws: the CRLF test compares s[0] with both '\r' and '\n'; the loop
\* rejects a character that differs from SP or differs from HT
is_lws(s) ==
    LET i == IF Len(s) >= 2 /\ (s[1] = 13 /\ s[1] = 10) THEN 2 ELSE 0
    IN  IF i = Len(s)
        THEN FALSE
        ELSE \A k \in (i + 1)..Len(s) : ~(s[k] # 32 \/ s[k] # 9)

is_qdtext(s) ==
    IF is_lws(s) THEN TRUE
    ELSE IF s = Lit_QUOTE THEN FALSE
    ELSE IF is_ctl(s) THEN FALSE
    ELSE TRUE

----------------------------------------------------------------------------
(* The operator>> chains, as lists of operations.  An operation names the  *)
(* overload to run (op), the literal of a "lex >> literal" (arg) and the   *)
(* object the overload fills in (dst).                                     *)

E(lit) == [op |-> "expect", arg |-> lit, dst |-> ""]

P(o, d) == [op |-> o, arg |-> <<>>, dst |-> d]

\* http_version: lex >> "HTTP" >> "/" >> self.major >> "." >> self.minor
http_version_ops ==
    <<E(Lit_HTTP), E(Lit_SLASH), P("int", "major"), E(Lit_DOT), P("int", "minor")>>

\* status_line: lex >> version >> " " >> code >> " " >> reason >> "\r" >> "\n"
status_line_ops ==
    http_version_ops
    \o <<E(Lit_SP), P("status_code", "number"), E(Lit_SP),
         P("reason_phrase", "reason"), E(Lit_CR), E(Lit_LF)>>

\* full_response: lex >> self.sl >> self.headers >> self.body
full_response_ops ==
    status_line_ops \o <<P("http_headers", "headers"), P("entity_body", "eb")>>

\* http_header: lex >> self.name >> ":", the value loop, lex >> "\r" >> "\n"
http_header_ops ==
    <<P("token", "name"), E(Lit_COLON), P("header_value", "value"),
      E(Lit_CR), E(Lit_LF)>>

\* request: lex >> m >> " " >> uri >> " ", then the test of the lookahead
request_ops ==
    <<P("method", "m"), E(Lit_SP), P("request_uri", "uri"), E(Lit_SP),
      P("request_branch", "")>>

\* request, Full-Request branch: lex >> version; lex >> headers >> eb; the
\* assignment of self.body
full_request_ops ==
    http_version_ops
    \o <<P("http_headers", "headers"), P("entity_body", "eb"), P("request_full", "")>>

\* request, Simple-Request branch: lex >> "\r" >> "\n", then the test of m
simple_request_ops ==
    <<E(Lit_CR), E(Lit_LF), P("request_simple", "")>>

\* quoted_string: the opening quote, the qdtext loop and the closing quote
quoted_string_ops ==
    <<P("qs_open", "qs"), P("qs_loop", "qs")>>

----------------------------------------------------------------------------
(* Values.                                                                 *)

\* a value-initialized http_header
EmptyHeader == [name |-> <<>>, value |-> <<>>]

\* the objects of the operator>> overloads before anything is parsed
EmptyLocals ==
    [m |-> <<>>, uri |-> <<>>, major |-> 0, minor |-> 0, number |-> 0,
     reason |-> <<>>, headers |-> <<>>, eb |-> <<>>,
     extension_method_name |-> <<>>, qs |-> <<>>, request_index |-> "none"]

\* hattip::message msg: the variant's first alternative, value-initialized
DefaultMessage ==
    [index |-> "full_response", request_index |-> "none",
     m |-> <<>>, uri |-> <<>>, major |-> 0, minor |-> 0, number |-> 0,
     reason |-> <<>>, headers |-> <<>>, body |-> <<>>]

\* the std::string that dst names; name and value are those of
\* self.body.back()
Get(l, dst) ==
    IF dst \in {"name", "value"}
    THEN l.headers[Len(l.headers)][dst]
    ELSE l[dst]

\* self += tmp on the std::string that dst names
AppendTo(l, dst, tmp) ==
    IF dst \in {"name", "value"}
    THEN [l EXCEPT !.headers[Len(l.headers)][dst] = @ \o tmp]
    ELSE [l EXCEPT ![dst] = @ \o tmp]

----------------------------------------------------------------------------
(* Serialization: the operator<< overloads.                                *)

http_version_out(major, minor) ==
    Lit_HTTP \o Lit_SLASH \o IntToStr(major) \o Lit_DOT \o IntToStr(minor)

http_header_out(h) == h.name \o Lit_COLON \o h.value \o Lit_CR \o Lit_LF

http_headers_out(hs) ==
    Concat([i \in DOMAIN hs |-> http_header_out(hs[i])]) \o Lit_CR \o Lit_LF

status_line_out(x) ==
    http_version_out(x.major, x.minor) \o Lit_SP \o IntToStr(x.number) \o Lit_SP
    \o x.reason \o Lit_CR \o Lit_LF

full_response_out(x) == status_line_out(x) \o http_headers_out(x.headers) \o x.body

simple_request_out(x) == Lit_GET \o Lit_SP \o x.uri \o Lit_CR \o Lit_LF

request_line_out(x) ==
    x.m \o Lit_SP \o x.uri \o Lit_SP \o http_version_out(x.major, x.minor)
    \o Lit_CR \o Lit_LF

full_request_out(x) == request_line_out(x) \o http_headers_out(x.headers) \o x.body

request_out(x) ==
    IF x.request_index = "simple_request"
    THEN simple_request_out(x)
    ELSE full_request_out(x)

message_out(x) ==
    IF x.index = "full_response" THEN full_response_out(x)
    ELSE IF x.index = "request" THEN request_out(x)
    ELSE x.body

----------------------------------------------------------------------------
(* The lexer's operations and the steps of the operator>> overloads.       *)

Op == todo[1]

At(o) == status = "parsing" /\ todo # <<>> /\ Op.op = o

\* lexer::next on the lexer's own fields
Advance ==
    /\ current_token_' = next(input, pos).tok
    /\ pos' = next(input, pos).pos

\* a throw: nothing of the parse runs after it and main() does not catch it
Throw(what) ==
    /\ status' = "failed"
    /\ error' = what
    /\ todo' = <<>>

\* main(): hattip::lexer lex{input}; then lex >> msg
LexerCtor ==
    /\ status = "init"
    /\ Advance
    /\ status' = "parsing"
    /\ todo' = <<P("message", "")>>
    /\ UNCHANGED <<input, locals, msg, regenerated_input, error>>

\* operator>> with a literal that takes the token before it compares it
Expect_skip ==
    /\ At("expect")
    /\ Advance
    /\ IF Op.arg = current_token_
       THEN /\ todo' = Tail(todo)
            /\ UNCHANGED <<status, error>>
       ELSE Throw("Expected literal")
    /\ UNCHANGED <<input, locals, msg, regenerated_input>>

\* lexer::operator>>(const char* literal)
Expect ==
    /\ At("expect")
    /\ IF Op.arg = current_token_
       THEN /\ Advance
            /\ todo' = Tail(todo)
            /\ UNCHANGED <<status, error>>
       ELSE /\ Throw("Expected literal")
            /\ UNCHANGED <<pos, current_token_>>
    /\ UNCHANGED <<input, locals, msg, regenerated_input>>

\* request_uri's operator>>: lexer::operator>>(std::string&) on the uri
RequestUri ==
    /\ At("request_uri")
    /\ locals' = [locals EXCEPT ![Op.dst] = current_token_]
    /\ Advance
    /\ todo' = Tail(todo)
    /\ UNCHANGED <<input, msg, regenerated_input, status, error>>

\* lexer::operator>>(int& number): the token is taken, then converted
ReadInt ==
    /\ At("int")
    /\ Advance
    /\ LET r == stoi(current_token_)
       IN  IF r.ok
           THEN /\ locals' = [locals EXCEPT ![Op.dst] = r.val]
                /\ todo' = Tail(todo)
                /\ UNCHANGED <<status, error>>
           ELSE /\ Throw(r.what)
                /\ UNCHANGED locals
    /\ UNCHANGED <<input, msg, regenerated_input>>

\* the test with "and" for "or": an error only for an unknown number of the
\* wrong width
status_code_ok_and(number, num_digits) ==
    ~(~is_known_status_code(number) /\ num_digits # 3)

\* the test of status_code's operator>> on the number read and the width
\* of the token it was read from
status_code_ok(number, num_digits) ==
    ~(~is_known_status_code(number) \/ num_digits # 3)

\* status_code's operator>>
StatusCode ==
    /\ At("status_code")
    /\ Advance
    /\ LET num_digits == Len(current_token_)
           r == stoi(current_token_)
       IN  IF ~r.ok
           THEN /\ Throw(r.what)
                /\ UNCHANGED locals
           ELSE /\ locals' = [locals EXCEPT ![Op.dst] = r.val]
                /\ IF status_code_ok(r.val, num_digits)
                   THEN /\ todo' = Tail(todo)
                        /\ UNCHANGED <<status, error>>
                   ELSE Throw("Unexpected status code number")
    /\ UNCHANGED <<input, msg, regenerated_input>>

\* one "lex >> tmp; self += tmp" of a loop
Slurp ==
    /\ locals' = AppendTo(locals, Op.dst, current_token_)
    /\ Advance
    /\ UNCHANGED <<input, todo, msg, regenerated_input, status, error>>

\* the end of a loop that nothing follows in its operator>>
Return ==
    /\ todo' = Tail(todo)
    /\ UNCHANGED <<input, pos, current_token_, locals, msg, regenerated_input,
                   status, error>>

\* the loop condition without the test for a tspecial
token_more_ctl_only(t) == ~is_ctl(t)

\* the loop condition of token's operator>>
token_more(t) == ~is_ctl(t) /\ ~is_tspecial(t)

\* token's operator>>: one iteration of the loop
TokenStep ==
    /\ At("token")
    /\ token_more(current_token_)
    /\ Slurp

\* token's operator>>: after the loop
TokenEnd ==
    /\ At("token")
    /\ ~token_more(current_token_)
    /\ IF Get(locals, Op.dst) = <<>>
       THEN Throw("token: Expected at least one CHAR")
       ELSE /\ todo' = Tail(todo)
            /\ UNCHANGED <<status, error>>
    /\ UNCHANGED <<input, pos, current_token_, locals, msg, regenerated_input>>

\* method's operator>>: the choice between quoted_string and token
MethodBegin ==
    /\ At("method")
    /\ IF current_token_ = Lit_QUOTE
       THEN /\ todo' = quoted_string_ops \o <<P("method_assign", "qs")>> \o Tail(todo)
            /\ locals' = [locals EXCEPT !.qs = <<>>]
       ELSE /\ todo' = <<P("token", "extension_method_name"),
                         P("method_assign", "extension_method_name")>> \o Tail(todo)
            /\ locals' = [locals EXCEPT !.extension_method_name = <<>>]
    /\ UNCHANGED <<input, pos, current_token_, msg, regenerated_input, status, error>>

\* method's operator>>: self.clear(); self += qs (or extension_method_name)
MethodAssign ==
    /\ At("method_assign")
    /\ locals' = [locals EXCEPT !.m = locals[Op.dst]]
    /\ todo' = Tail(todo)
    /\ UNCHANGED <<input, pos, current_token_, msg, regenerated_input, status, error>>

\* quoted_string's operator>>: lex >> "\""; self += "\""
QsOpen ==
    /\ At("qs_open")
    /\ IF current_token_ = Lit_QUOTE
       THEN /\ Advance
            /\ locals' = AppendTo(locals, Op.dst, Lit_QUOTE)
            /\ todo' = Tail(todo)
            /\ UNCHANGED <<status, error>>
       ELSE /\ Throw("Expected literal")
            /\ UNCHANGED <<pos, current_token_, locals>>
    /\ UNCHANGED <<input, msg, regenerated_input>>

\* quoted_string's operator>>: one iteration of the loop
QsStep ==
    /\ At("qs_loop")
    /\ current_token_ # Lit_QUOTE
    /\ IF ~is_qdtext(current_token_)
       THEN /\ Throw("Expected qdtext")
            /\ UNCHANGED <<input, pos, current_token_, locals, msg, regenerated_input>>
       ELSE Slurp

\* quoted_string's operator>>: after the loop, lex >> "\""; self += "\""
QsClose ==
    /\ At("qs_loop")
    /\ current_token_ = Lit_QUOTE
    /\ Advance
    /\ locals' = AppendTo(locals, Op.dst, Lit_QUOTE)
    /\ todo' = Tail(todo)
    /\ UNCHANGED <<input, msg, regenerated_input, status, error>>

\* the loop condition of reason_phrase's operator>>
reason_more(t) == t # Lit_CR /\ t # Lit_LF

ReasonStep ==
    /\ At("reason_phrase")
    /\ reason_more(current_token_)
    /\ Slurp

ReasonEnd ==
    /\ At("reason_phrase")
    /\ ~reason_more(current_token_)
    /\ Return

\* the loop condition of the value loop of http_header's operator>>
value_more(t) == t # Lit_CR

ValueStep ==
    /\ At("header_value")
    /\ value_more(current_token_)
    /\ Slurp

ValueEnd ==
    /\ At("header_value")
    /\ ~value_more(current_token_)
    /\ Return

\* the loop condition of http_headers' operator>>
headers_more(t) == t # Lit_CR

\* http_headers' operator>>: self.body.push_back({}); lex >> self.body.back()
HeadersStep ==
    /\ At("http_headers")
    /\ headers_more(current_token_)
    /\ locals' = [locals EXCEPT !.headers = Append(@, EmptyHeader)]
    /\ todo' = http_header_ops \o todo
    /\ UNCHANGED <<input, pos, current_token_, msg, regenerated_input, status, error>>

\* http_headers' operator>>: after the loop, lex >> "\r" >> "\n"
HeadersEnd ==
    /\ At("http_headers")
    /\ ~headers_more(current_token_)
    /\ todo' = <<E(Lit_CR), E(Lit_LF)>> \o Tail(todo)
    /\ UNCHANGED <<input, pos, current_token_, locals, msg, regenerated_input,
                   status, error>>

\* the loop condition of entity_body's operator>>
body_more(t) == ~(t = <<>>)

BodyStep ==
    /\ At("entity_body")
    /\ body_more(current_token_)
    /\ Slurp

BodyEnd ==
    /\ At("entity_body")
    /\ ~body_more(current_token_)
    /\ Return

\* request's operator>>: lex >> m >> " " >> uri >> " " on fresh m and uri
RequestBegin ==
    /\ At("request")
    /\ todo' = request_ops \o Tail(todo)
    /\ locals' = [locals EXCEPT !.m = <<>>, !.uri = <<>>]
    /\ UNCHANGED <<input, pos, current_token_, msg, regenerated_input, status, error>>

\* request's operator>>: if(lex.peek() == "HTTP") ... else ...
RequestBranch ==
    /\ At("request_branch")
    /\ IF current_token_ = Lit_HTTP
       THEN todo' = full_request_ops \o Tail(todo)
       ELSE todo' = simple_request_ops \o Tail(todo)
    /\ UNCHANGED <<input, pos, current_token_, locals, msg, regenerated_input,
                   status, error>>

\* request's operator>>: self.body = full_request{rl, headers, eb}
RequestFull ==
    /\ At("request_full")
    /\ locals' = [locals EXCEPT !.request_index = "full_request"]
    /\ todo' = Tail(todo)
    /\ UNCHANGED <<input, pos, current_token_, msg, regenerated_input, status, error>>

\* the test of the method in the Simple-Request branch
is_get(m) == ~(m # Lit_QGET)

\* request's operator>>: the test of m, then self.body = simple_request{uri}
RequestSimple ==
    /\ At("request_simple")
    /\ IF ~is_get(locals.m)
       THEN /\ Throw("Expected GET")
            /\ UNCHANGED locals
       ELSE /\ locals' = [locals EXCEPT !.request_index = "simple_request"]
            /\ todo' = Tail(todo)
            /\ UNCHANGED <<status, error>>
    /\ UNCHANGED <<input, pos, current_token_, msg, regenerated_input>>

\* message's operator>> parsing into self.body in place: the alternative is
\* set when it is chosen, before it is parsed
MessageBegin_in_place ==
    /\ At("message")
    /\ IF current_token_ = Lit_HTTP
       THEN /\ todo' = full_response_ops \o <<P("message_assign", "full_response")>>
            /\ msg' = [msg EXCEPT !.index = "full_response", !.body = Lit_HTTP]
       ELSE IF ~(current_token_ = <<>>)
       THEN /\ todo' = <<P("request", ""), P("message_assign", "request")>>
            /\ msg' = [msg EXCEPT !.index = "request"]
       ELSE /\ todo' = <<P("entity_body", "eb"), P("message_assign", "simple_response")>>
            /\ msg' = [msg EXCEPT !.index = "simple_response"]
    /\ UNCHANGED <<input, pos, current_token_, locals, regenerated_input, status, error>>

\* message's operator>>: the choice of the alternative by the lookahead
MessageBegin ==
    /\ At("message")
    /\ IF current_token_ = Lit_HTTP
       THEN todo' = full_response_ops \o <<P("message_assign", "full_response")>>
       ELSE IF ~(current_token_ = <<>>)
       THEN todo' = <<P("request", ""), P("message_assign", "request")>>
       ELSE todo' = <<P("entity_body", "eb"), P("message_assign", "simple_response")>>
    /\ UNCHANGED <<input, pos, current_token_, locals, msg, regenerated_input,
                   status, error>>

\* the value message's operator>> assigns to self.body
Parsed(l, index) ==
    IF index = "full_response"
    THEN [DefaultMessage EXCEPT !.index = index,
              !.major = l.major, !.minor = l.minor, !.number = l.number,
              !.reason = l.reason, !.headers = l.headers, !.body = l.eb]
    ELSE IF index = "simple_response"
    THEN [DefaultMessage EXCEPT !.index = index, !.body = l.eb]
    ELSE IF l.request_index = "simple_request"
    THEN [DefaultMessage EXCEPT !.index = index, !.request_index = l.request_index,
              !.uri = l.uri]
    ELSE [DefaultMessage EXCEPT !.index = index, !.request_index = l.request_index,
              !.m = l.m, !.uri = l.uri, !.major = l.major, !.minor = l.minor,
              !.headers = l.headers, !.body = l.eb]

\* message's operator>>: self.body = fr (or req, or sr); lex >> msg returns
MessageAssign ==
    /\ At("message_assign")
    /\ msg' = Parsed(locals, Op.dst)
    /\ todo' = Tail(todo)
    /\ status' = "parsed"
    /\ UNCHANGED <<input, pos, current_token_, locals, regenerated_input, error>>

\* main(): regenerated_input << msg
Regenerate ==
    /\ status = "parsed"
    /\ regenerated_input' = message_out(msg)
    /\ status' = "regenerated"
    /\ UNCHANGED <<input, pos, current_token_, todo, locals, msg, error>>

\* main(): assert(regenerated_input.str() == input.str())
AssertEqual ==
    /\ status = "regenerated"
    /\ status' = IF regenerated_input = InputStr(input) THEN "done" ELSE "aborted"
    /\ UNCHANGED <<input, pos, current_token_, todo, locals, msg, regenerated_input,
                   error>>

----------------------------------------------------------------------------
(* The inputs: every sequence of at most MaxWords words, the Requests and  *)
(* Full-Responses built from the parts below with at most MaxHeaders       *)
(* header lines, and every prefix of three complete messages.              *)

MaxWords == 3

MaxHeaders == 2

Seqs(S, n) == UNION {[1..k -> S] : k \in 0..n}

Prefixes(s) == {SubSeq(s, 1, k) : k \in 0..Len(s)}

CRLF == Lit_CR \o Lit_LF

Txt_POST == <<80, 79, 83, 84>>                \* POST
Txt_QPOST == <<34, 80, 79, 83, 84, 34>>       \* "POST"
Txt_Root == <<47>>                            \* /
Txt_AbsPath == <<47, 120>>                    \* /x
Txt_V10 == <<72, 84, 84, 80, 47, 49, 46, 48>> \* HTTP/1.0
Txt_V010 == <<72, 84, 84, 80, 47, 48, 49, 46, 48>> \* HTTP/01.0
\* HTTP/2147483648.0
Txt_VBig ==
    <<72, 84, 84, 80, 47, 50, 49, 52, 55, 52, 56, 51, 54, 52, 56, 46, 48>>
Txt_HeaderA == <<65, 58, 53>>                 \* A:5
Txt_HeaderB == <<66, 45, 99, 58, 32, 100>>    \* B-c: d
Txt_OK == <<79, 75>>                          \* OK
Txt_NotFound == <<78, 111, 116, 32, 70, 111, 117, 110, 100>> \* Not Found

Words ==
    {Lit_GET, Lit_HTTP, Lit_QUOTE, Lit_SP, Lit_CR, Lit_LF, Lit_SLASH, Lit_DOT,
     Lit_COLON, <<49>>, <<97>>, <<9>>, <<255>>, <<45>>}

Methods == {Lit_GET, Lit_QGET, Txt_POST, Txt_QPOST}

Uris == {Txt_Root, Txt_AbsPath}

Versions == {Txt_V10, Txt_V010}

\* 200 404 504 999 202 20 0200 abc, and no code at all
Codes ==
    {<<50, 48, 48>>, <<52, 48, 52>>, <<53, 48, 52>>, <<57, 57, 57>>, <<50, 48, 50>>,
     <<50, 48>>, <<48, 50, 48, 48>>, <<97, 98, 99>>, <<>>}

Reasons == {<<>>, Txt_OK, Txt_NotFound}

HeaderLines == {Txt_HeaderA \o CRLF, Txt_HeaderB \o CRLF}

\* nothing, h, CRLF, a 0xFF b
Bodies == {<<>>, <<104>>, CRLF, <<97, 255, 98>>}

HeaderBlocks == {Concat(hs) : hs \in Seqs(HeaderLines, MaxHeaders)}

RequestTails ==
    {CRLF, Lit_SP \o CRLF, Lit_SP \o CRLF \o <<120>>}
    \cup {Lit_SP \o v \o CRLF \o hs \o CRLF \o b :
            v \in Versions, hs \in HeaderBlocks, b \in Bodies}
    \cup {Lit_SP \o v \o hs \o CRLF \o b :
            v \in Versions, hs \in HeaderBlocks, b \in Bodies}

Requests == {me \o Lit_SP \o u \o t : me \in Methods, u \in Uris, t \in RequestTails}

Responses ==
    {v \o Lit_SP \o c \o Lit_SP \o r \o CRLF \o hs \o CRLF \o b :
        v \in Versions, c \in Codes, r \in Reasons, hs \in HeaderBlocks, b \in Bodies}

\* the last three: a header line that starts with a colon, one that starts
\* with LF, and a version whose major number is INT_MAX + 1
Complete ==
    {Txt_V10 \o Lit_SP \o <<50, 48, 48>> \o Lit_SP \o Txt_OK \o CRLF
        \o Txt_HeaderA \o CRLF \o CRLF \o <<104>>,
     Lit_GET \o Lit_SP \o Txt_Root \o Lit_SP \o Txt_V10 \o CRLF
        \o Txt_HeaderB \o CRLF \o CRLF \o <<104>>,
     Lit_QGET \o Lit_SP \o Txt_Root \o Lit_SP \o CRLF,
     Txt_V10 \o Lit_SP \o <<50, 48, 48>> \o Lit_SP \o Txt_OK \o CRLF
        \o Lit_COLON \o <<65>> \o CRLF \o CRLF,
     Txt_V10 \o Lit_SP \o <<50, 48, 48>> \o Lit_SP \o Txt_OK \o CRLF
        \o Lit_LF \o <<65>> \o CRLF \o CRLF,
     Txt_VBig \o Lit_SP \o <<50, 48, 48>> \o Lit_SP \o Txt_OK \o CRLF \o CRLF}

Inputs ==
    {Concat(ws) : ws \in Seqs(Words, MaxWords)}
    \cup Requests
    \cup Responses
    \cup UNION {Prefixes(c) : c \in Complete}

----------------------------------------------------------------------------

Init ==
    /\ input \in Inputs
    /\ pos = 0
    /\ current_token_ = <<>>
    /\ todo = <<>>
    /\ locals = EmptyLocals
    /\ msg = DefaultMessage
    /\ regenerated_input = <<>>
    /\ status = "init"
    /\ error = ""

Next ==
    \/ LexerCtor
    \/ Expect
    \/ RequestUri
    \/ ReadInt
    \/ StatusCode
    \/ TokenStep
    \/ TokenEnd
    \/ MethodBegin
    \/ MethodAssign
    \/ QsOpen
    \/ QsStep
    \/ QsClose
    \/ ReasonStep
    \/ ReasonEnd
    \/ ValueStep
    \/ ValueEnd
    \/ HeadersStep
    \/ HeadersEnd
    \/ BodyStep
    \/ BodyEnd
    \/ RequestBegin
    \/ RequestBranch
    \/ RequestFull
    \/ RequestSimple
    \/ MessageBegin
    \/ MessageAssign
    \/ Regenerate
    \/ AssertEqual

Spec == Init /\ [][Next]_vars

----------------------------------------------------------------------------
(* Properties.                                                             *)

\* lex >> msg has returned to main()
Returned == status \in {"parsed", "regenerated", "done", "aborted"}

\* main() has regenerated the input from msg
Regenerated == status \in {"regenerated", "done", "aborted"}

\* C1: whenever the parse of the input completes without an error, the
\* serialized message equals the input byte for byte, whichever kind of
\* message was parsed.
C1_RoundTrip ==
    Regenerated => regenerated_input = InputStr(input)

\* C2: the parse always ends: while lex >> msg is running, a step that changes
\* the state of the parse is possible, so that no loop goes on consuming the
\* empty token of the end of the input.
C2_ParseProgresses ==
    status = "parsing" => ENABLED <<Next>>_vars

\* C3: the kind of a parsed message is decided by the first token alone: it
\* is a Full-Response exactly when the input starts with the token HTTP, and
\* it is a Simple-Response only when the input is empty, its body then being
\* empty.
C3_Classification ==
    Returned =>
        /\ (msg.index = "full_response") <=> (next(input, 0).tok = Lit_HTTP)
        /\ (msg.index = "simple_response") => (input = <<>> /\ msg.body = <<>>)
        /\ (msg.index = "request") =>
               (next(input, 0).tok # <<>> /\ next(input, 0).tok # Lit_HTTP)

\* the inputs GET SP uri CR LF with uri a non-empty run of bytes that are
\* not white space
IsSimpleRequestInput(inp) ==
    /\ Len(inp) >= 7
    /\ SubSeq(inp, 1, 4) = Lit_GET \o Lit_SP
    /\ SubSeq(inp, Len(inp) - 1, Len(inp)) = CRLF
    /\ \A i \in 5..(Len(inp) - 2) : ~isspace(inp[i])

\* C4: an input GET SP uri CR LF parses, without an error, to the
\* Simple-Request of exactly that uri, and serializes back to the input.
C4_SimpleRequest ==
    IsSimpleRequestInput(input) =>
        /\ status # "failed"
        /\ Returned =>
               /\ msg.index = "request"
               /\ msg.request_index = "simple_request"
               /\ msg.uri = SubSeq(InputStr(input), 5, Len(input) - 2)
        /\ Regenerated => regenerated_input = InputStr(input)

\* index of the first ch in s at or after i; Len(s) + 1 when there is none
RECURSIVE IndexOf(_, _, _)
IndexOf(s, ch, i) ==
    IF i > Len(s) \/ s[i] = ch THEN i ELSE IndexOf(s, ch, i + 1)

\* the header a header line name ":" value CR LF stands for
HeaderOf(line) ==
    [name |-> SubSeq(line, 1, IndexOf(line, 58, 1) - 1),
     value |-> SubSeq(line, IndexOf(line, 58, 1) + 1, Len(line) - 2)]

\* C5: a parsed input Method SP uri SP HTTP/major.minor CR LF, n header
\* lines, CR LF, body is a Full-Request with exactly those n headers in the
\* order of the input and exactly that body; the CR LF after the version is
\* not taken for the end of the header list.
C5_FullRequest ==
    (Returned /\ msg.index = "request") =>
        \A me \in Methods, u \in Uris, v \in Versions,
           hs \in Seqs(HeaderLines, MaxHeaders), b \in Bodies :
            input = me \o Lit_SP \o u \o Lit_SP \o v \o CRLF \o Concat(hs) \o CRLF \o b
            => /\ msg.request_index = "full_request"
               /\ msg.headers = [i \in DOMAIN hs |-> HeaderOf(hs[i])]
               /\ msg.body = InputStr(b)

\* the 3-digit tokens whose value is a known status code
ValidStatusToken(t) ==
    /\ Len(t) = 3
    /\ \A i \in 1..3 : t[i] \in 48..57
    /\ (100 * (t[1] - 48) + 10 * (t[2] - 48) + (t[3] - 48)) \in known_status_codes

C7_NoMessageOnError ==
    /\ (error # "") =>
           (status = "failed" /\ msg = DefaultMessage /\ ~ENABLED <<Next>>_vars)
    /\ (status \in {"init", "parsing"}) => msg = DefaultMessage
    /\ (msg # DefaultMessage) => Returned

\* an error raised after the status line and a header of a Full-Response
\* were parsed
C7_Witness ==
    /\ status = "failed"
    /\ error # ""
    /\ locals.number = 200
    /\ Len(locals.headers) = 1
    /\ locals.headers[1].name # <<>>

\* C8: in the Simple-Request branch the parse succeeds exactly when the
\* method parsed is GET, quoted or bare.
C8_GetQuotedOrBare ==
    /\ (error = "Expected GET") => ~(locals.m \in {Lit_GET, Lit_QGET})
    /\ (locals.request_index = "simple_request") => locals.m \in {Lit_GET, Lit_QGET}

\* stream position of the first white space byte of inp at or after p;
\* Len(inp) when there is none
RECURSIVE UriEnd(_, _)
UriEnd(inp, p) ==
    IF p >= Len(inp) \/ isspace(inp[p + 1]) THEN p ELSE UriEnd(inp, p + 1)

\* C9: the parse of a Request-URI takes every byte from where the lookahead
\* token starts up to the next white space byte, however many tokens that
\* is, and leaves that white space as the lookahead.
C9_RequestUri ==
    [][At("request_uri") =>
          LET start == pos - Len(current_token_)
              end == UriEnd(input, start)
          IN  /\ locals'.uri = Chars(input, start, end)
              /\ end < Len(input) => current_token_' = <<ToChar(input[end + 1])>>]_vars

\* C10: a parsed input HTTP/major.minor SP code SP reason CR LF, n header
\* lines name ":" value CR LF, CR LF, body is a Full-Response with exactly
\* those n headers in the order of the input, each value being the bytes
\* between the colon and the CR, with that reason and with every byte after
\* the blank line as its body; the headers are serialized in the same order.
C10_FullResponse ==
    (Returned /\ msg.index = "full_response") =>
        \A v \in Versions, c \in Codes, r \in Reasons,
           hs \in Seqs(HeaderLines, MaxHeaders), b \in Bodies :
            input = v \o Lit_SP \o c \o Lit_SP \o r \o CRLF \o Concat(hs) \o CRLF \o b
            => /\ msg.headers = [i \in DOMAIN hs |-> HeaderOf(hs[i])]
               /\ http_headers_out(msg.headers) = Concat(hs) \o CRLF
               /\ msg.reason = r
               /\ msg.body = InputStr(b)

\* C11: a Token (a field-name, a bare Method) parsed when the lookahead is a
\* single control character or a single tspecial raises an error, and the
\* lexer's lookahead and stream position are what they were.
C11_NonEmptyToken ==
    [][(/\ At("token")
        /\ Get(locals, Op.dst) = <<>>
        /\ (is_ctl(current_token_) \/ is_tspecial(current_token_)))
       => /\ status' = "failed"
          /\ error' = "token: Expected at least one CHAR"
          /\ current_token_' = current_token_
          /\ pos' = pos
          /\ msg' = DefaultMessage]_vars

\* the parse of a field-name has failed on a tspecial lookahead
C11_Witness ==
    /\ status = "failed"
    /\ error = "token: Expected at least one CHAR"
    /\ Len(locals.headers) = 1
    /\ locals.headers[1].name = <<>>
    /\ current_token_ = Lit_COLON

\* a step that moves the lexer forward by exactly one token: the new buffered
\* token is what lexer::next builds at the stream position, and it is the
\* bytes the step took from the stream
LexerAdvanced ==
    /\ current_token_' = next(input, pos).tok
    /\ pos' = pos + Len(current_token_')
    /\ current_token_' = Chars(input, pos, pos')

\* a step that leaves the buffered token and the stream position alone
LexerUntouched ==
    /\ current_token_' = current_token_
    /\ pos' = pos

\* the steps that only look at lex.peek()
PeekOnly ==
    {"message", "request", "method", "method_assign", "request_branch",
     "request_full", "request_simple", "http_headers", "message_assign"}

\* the parse is at a "lex >> tmp; self += tmp" of one of its loops
InLoopBody ==
    \/ At("token") /\ token_more(current_token_)
    \/ At("reason_phrase") /\ reason_more(current_token_)
    \/ At("header_value") /\ value_more(current_token_)
    \/ At("entity_body") /\ body_more(current_token_)
    \/ At("qs_loop") /\ current_token_ # Lit_QUOTE /\ is_qdtext(current_token_)

\* the parse is at the test that ends one of its loops
AtLoopEnd ==
    \/ At("token") /\ ~token_more(current_token_)
    \/ At("reason_phrase") /\ ~reason_more(current_token_)
    \/ At("header_value") /\ ~value_more(current_token_)
    \/ At("entity_body") /\ ~body_more(current_token_)

\* C12: peek() changes neither the buffered token nor the stream position;
\* operator>> into a string hands over the token peek() showed and moves
\* forward by exactly one token; operator>> with a literal moves forward by
\* exactly one token when the buffered token equals the literal, and raises
\* an error otherwise, the buffered token and the position staying as they
\* were.
C12_LookaheadContract ==
    [][status = "parsing" =>
          /\ At("expect") =>
                 IF Op.arg = current_token_
                 THEN LexerAdvanced /\ status' = "parsing" /\ todo' = Tail(todo)
                 ELSE LexerUntouched /\ status' = "failed"
          /\ At("request_uri") => (locals'.uri = current_token_ /\ LexerAdvanced)
          /\ InLoopBody =>
                 /\ Get(locals', Op.dst) = Get(locals, Op.dst) \o current_token_
                 /\ LexerAdvanced
          /\ (At("int") \/ At("status_code")) => LexerAdvanced
          /\ (At("qs_open") \/ At("qs_loop")) =>
                 IF current_token_ = Lit_QUOTE \/ is_qdtext(current_token_)
                 THEN LexerAdvanced /\ status' = "parsing"
                 ELSE LexerUntouched /\ status' = "failed"
          /\ (AtLoopEnd \/ Op.op \in PeekOnly) => LexerUntouched]_vars

\* a literal was refused after a token had been handed over as the uri
C12_Witness ==
    /\ status = "failed"
    /\ error = "Expected literal"
    /\ locals.uri = Lit_SLASH
    /\ current_token_ = <<120>>

\* the tokens handed over by advancing a lexer built on inp at stream
\* position p again and again, up to the first empty token
RECURSIVE Tokens(_, _)
Tokens(inp, p) ==
    IF next(inp, p).tok = <<>>
    THEN <<>>
    ELSE <<next(inp, p).tok>> \o Tokens(inp, next(inp, p).pos)

\* C13: the tokens of an input, concatenated, are the input; the buffered
\* token is empty exactly when no byte of the input is left at or after the
\* place where the buffered token starts, and once it is empty it stays
\* empty.
C13_LosslessTokens ==
    /\ [](/\ Concat(Tokens(input, 0)) = InputStr(input)
          /\ (status # "init") =>
                 ((current_token_ = <<>>) <=> (pos - Len(current_token_) = Len(input))))
    /\ [][(status # "init" /\ current_token_ = <<>>) => current_token_' = <<>>]_vars

\* a run of decimal digits
DigitRun(t) == t # <<>> /\ \A i \in DOMAIN t : t[i] \in 48..57

\* a run of letters
LetterRun(t) == t # <<>> /\ \A i \in DOMAIN t : t[i] \in (65..90) \cup (97..122)

\* one of the three shapes of a token
TokenShape(t) ==
    \/ Len(t) = 1 /\ ~DigitRun(t) /\ ~LetterRun(t)
    \/ DigitRun(t)
    \/ LetterRun(t)

\* SP, CR, LF and the tspecials
Delimiters == {32, 13, 10} \cup tspecials

\* C14: every token the lexer builds that is not empty is one byte that is
\* neither a digit nor a letter, or a run of digits, or a run of letters; a
\* run ends only where the next byte of the input is not of its class, so
\* that no two tokens in a row are both digit runs or both letter runs; a
\* token that holds SP, CR, LF or a tspecial is that one byte.  The input
\* never changes: its whole token sequence is looked at where main() starts,
\* the buffered token at every later step.
C14_MaximalMunch ==
    /\ (status # "init" /\ current_token_ # <<>>) =>
           /\ TokenShape(current_token_)
           /\ current_token_ = Chars(input, pos - Len(current_token_), pos)
           /\ (DigitRun(current_token_) /\ pos < Len(input)) =>
                  ~DigitRun(<<input[pos + 1]>>)
           /\ (LetterRun(current_token_) /\ pos < Len(input)) =>
                  ~LetterRun(<<input[pos + 1]>>)
           /\ \A i \in DOMAIN current_token_ :
                  current_token_[i] \in Delimiters => Len(current_token_) = 1
    /\ (status = "init") =>
           LET ts == Tokens(input, 0)
           IN  \A i \in DOMAIN ts :
                   /\ TokenShape(ts[i])
                   /\ \A k \in DOMAIN ts[i] : ts[i][k] \in Delimiters => Len(ts[i]) = 1
                   /\ i < Len(ts) =>
                          /\ ~(DigitRun(ts[i]) /\ DigitRun(ts[i + 1]))
                          /\ ~(LetterRun(ts[i]) /\ LetterRun(ts[i + 1]))

\* the buffered token is the digit run 200, between a SP and a SP
C14_Witness ==
    /\ At("status_code")
    /\ current_token_ = <<50, 48, 48>>
    /\ input[pos - 3] = 32
    /\ StreamPeek(input, pos) = 32

\* longest string is_lws and is_qdtext are tried on
MaxLws == 3

\* SP and HT, CR and LF, the quote and a letter
QdChars == {32, 9, 13, 10, 34, 97}

\* LWS := [CRLF] 1*( SP | HT )
LinearWhiteSpace(s) ==
    LET body == IF Len(s) >= 2 /\ SubSeq(s, 1, 2) = CRLF
                THEN SubSeq(s, 3, Len(s))
                ELSE s
    IN  body # <<>> /\ \A i \in DOMAIN body : body[i] \in {32, 9}

\* qdtext := any CHAR except the quote and CTLs, but including LWS
QuotedText(s) ==
    LinearWhiteSpace(s) \/ (s # Lit_QUOTE /\ ~(Len(s) = 1 /\ is_ctl_char(s[1])))

\* C15: is_qdtext(t) is true exactly when t is linear white space or t is
\* neither the quote nor a single control character; is_lws accepts every
\* string of one or more SP or HT; the parse of a Quoted-String does not
\* refuse a token that is such text, an HT among them.
C15_Qdtext ==
    /\ At("qs_loop") =>
           \A s \in Seqs(QdChars, MaxLws) :
               /\ is_qdtext(s) <=> QuotedText(s)
               /\ LinearWhiteSpace(s) => is_lws(s)
    /\ (error = "Expected qdtext") => ~QuotedText(current_token_)

\* C16: the serialized form of a parsed Request, Simple or Full, begins with
\* the method as it was taken from the input, with its quotes when it was
\* parsed as a Quoted-String and without them when it was parsed as a token.
C16_MethodPreserved ==
    (Regenerated /\ msg.index = "request") =>
        /\ Len(regenerated_input) >= Len(locals.m)
        /\ SubSeq(regenerated_input, 1, Len(locals.m)) = locals.m
        /\ SubSeq(InputStr(input), 1, Len(locals.m)) = locals.m

\* C17: when lex >> msg returns, the lexer is at the end of the stream: its
\* lookahead is the empty token and every byte of the input was read,
\* whichever kind of message was parsed.
C17_WholeInput ==
    Returned => (current_token_ = <<>> /\ pos = Len(input))

\* the number a run of decimal digits writes
RECURSIVE DecimalValue(_)
DecimalValue(t) ==
    IF t = <<>> THEN 0
    ELSE 10 * DecimalValue(SubSeq(t, 1, Len(t) - 1)) + (t[Len(t)] - 48)

\* a digit run without its leading zeros
RECURSIVE StripZeros(_)
StripZeros(t) ==
    IF Len(t) > 1 /\ t[1] = 48 THEN StripZeros(Tail(t)) ELSE t

\* the decimal digits of the largest int, 2147483647
IntMaxDigits == <<50, 49, 52, 55, 52, 56, 51, 54, 52, 55>>

\* the value of a digit run fits an int: it has fewer digits than the
\* largest int, or as many and it does not come after it
FitsInt(t) ==
    LET d == StripZeros(t)
    IN  \/ Len(d) < Len(IntMaxDigits)
        \/ /\ Len(d) = Len(IntMaxDigits)
           /\ \/ d = IntMaxDigits
              \/ \E i \in DOMAIN d :
                     /\ d[i] < IntMaxDigits[i]
                     /\ \A j \in 1..(i - 1) : d[j] = IntMaxDigits[j]

\* C18: a number of an Http-Version is read with success exactly when the
\* lookahead token is a run of digits whose value fits an int; the number
\* stored is then that value, it is not negative, and written out again it
\* is the digit run of the input; on any other token the parse ends in an
\* error and no message is assigned.
C18_HttpVersion ==
    [][At("int") =>
          /\ (status' = "parsing") <=>
                 (DigitRun(current_token_) /\ FitsInt(current_token_))
          /\ (status' = "parsing") =>
                 /\ locals'[Op.dst] = DecimalValue(current_token_)
                 /\ locals'[Op.dst] >= 0
                 /\ IntToStr(locals'[Op.dst]) = current_token_
                 /\ todo' = Tail(todo)
          /\ (status' # "parsing") => (status' = "failed" /\ msg' = DefaultMessage)]_vars

====
